---------------------------- MODULE Spec2Model ----------------------------
(***************************************************************************)
(* State-machine model of flutter_surf_mcp.py: the process-wide connection *)
(* state (app, is_connected), the nine tool handlers, and the remote       *)
(* automation client (App) they call.  Every handler is an `async def`     *)
(* without a single await, so one invocation runs to completion on the     *)
(* event loop: one action per handler.                                     *)
(*                                                                         *)
(* Python strings are sequences of one-character strings, so that int(),   *)
(* lower() and `in` are computed, not assumed.  None is the one-element    *)
(* sequence NoneVal, which no character sequence equals.                   *)
(***************************************************************************)
EXTENDS Integers, Sequences, FiniteSets, TLC

----------------------------------------------------------------------------
(* Bounds of the model *)

\* connections the remote client may construct in one behaviour
MaxConns == 2

\* nodes in a snapshot of the exhaustive search-engine specification
MaxNodes == 2

----------------------------------------------------------------------------
(* Python values *)

NoneVal == <<"None">>

\* `if x:` on an optional string: None and "" are falsy
Truthy(s) == s # NoneVal /\ s # <<>>

LowerChar(c) ==
    CASE c = "A" -> "a"
      [] c = "B" -> "b"
      [] c = "S" -> "s"
      [] OTHER -> c

\* str.lower()
Lower(s) == [i \in 1..Len(s) |-> LowerChar(s[i])]

\* `needle in hay` on strings: substring containment ("" is in every string)
Contains(hay, needle) ==
    \E i \in 0..(Len(hay) - Len(needle)) :
        \A j \in 1..Len(needle) : hay[i + j] = needle[j]

Digits == {"0", "1", "2", "3", "4", "5", "6", "7", "8", "9"}

DigitVal(c) ==
    CASE c = "0" -> 0 [] c = "1" -> 1 [] c = "2" -> 2 [] c = "3" -> 3
      [] c = "4" -> 4 [] c = "5" -> 5 [] c = "6" -> 6 [] c = "7" -> 7
      [] c = "8" -> 8 [] c = "9" -> 9

RECURSIVE StripLeft(_)
StripLeft(s) == IF s # <<>> /\ Head(s) = " " THEN StripLeft(Tail(s)) ELSE s

RECURSIVE StripRight(_)
StripRight(s) ==
    IF s # <<>> /\ s[Len(s)] = " " THEN StripRight(SubSeq(s, 1, Len(s) - 1)) ELSE s

\* the digit part of an int() literal: digits, single underscores between them
DigitsOk(d) ==
    /\ d # <<>>
    /\ \A i \in 1..Len(d) : d[i] \in Digits \/ d[i] = "_"
    /\ d[1] # "_" /\ d[Len(d)] # "_"
    /\ \A i \in 1..(Len(d) - 1) : ~(d[i] = "_" /\ d[i + 1] = "_")

RECURSIVE DigitsValue(_, _)
DigitsValue(d, acc) ==
    IF d = <<>> THEN acc
    ELSE IF Head(d) = "_" THEN DigitsValue(Tail(d), acc)
    ELSE DigitsValue(Tail(d), 10 * acc + DigitVal(Head(d)))

\* int(widget_id) on a str: surrounding whitespace stripped, an optional sign,
\* then digits; anything else raises ValueError (ok = FALSE).
PyInt(s) ==
    LET t == StripRight(StripLeft(s))
        signed == t # <<>> /\ Head(t) \in {"+", "-"}
        d == IF signed THEN Tail(t) ELSE t
    IN  IF DigitsOk(d)
        THEN [ok |-> TRUE,
              val |-> IF signed /\ Head(t) = "-" THEN 0 - DigitsValue(d, 0)
                      ELSE DigitsValue(d, 0)]
        ELSE [ok |-> FALSE, val |-> 0]

----------------------------------------------------------------------------
(* Nodes and snapshots: the values app.get_app_state() returns *)

\* a Node of the widget tree; parent = 0 is a root; properties is the number of
\* characters of str(properties), 0 for the empty mapping
Node(uid, wtype, text, key, interactive, parent) ==
    [unique_id |-> uid, widget_type |-> wtype, text |-> text, key |-> key,
     is_interactive |-> interactive, parent |-> parent, properties |-> 0]

\* node_state: selector_map is the dict in its iteration order
Snapshot(nodes) == [selector_map |-> nodes]

EmptySnapshot == Snapshot(<<>>)

\* root id=1 "Scaffold" (no text), child id=2 "Button" text "Submit"
ScenarioSnapshot ==
    Snapshot(<< Node(1, <<"S","c","a","f","f","o","l","d">>, NoneVal, NoneVal, FALSE, 0),
                Node(2, <<"B","u","t","t","o","n">>, <<"S","u","b","m","i","t">>,
                     <<"o","k">>, TRUE, 1) >>)

\* a single node whose key, text and widget_type are all the empty string
BlankSnapshot ==
    Snapshot(<< Node(2, <<>>, <<>>, <<>>, FALSE, 0) >>)

\* iteration order differing from id order; a keyed node without text
KeyedSnapshot ==
    Snapshot(<< Node(2, <<"B","a">>, NoneVal, <<"A","b">>, TRUE, 0),
                Node(1, <<"B">>, <<"b">>, NoneVal, FALSE, 2) >>)

SampleSnapshots == {EmptySnapshot, ScenarioSnapshot, BlankSnapshot, KeyedSnapshot}

KeyVals == {NoneVal, <<>>, <<"A","b">>}
TextVals == {NoneVal, <<>>, <<"b">>}
TypeVals == {<<>>, <<"B","a">>}

NodesOf(uid) ==
    {Node(uid, ty, tx, k, i, 0) : ty \in TypeVals, tx \in TextVals, k \in KeyVals, i \in {TRUE}}

\* every selector map over ids 1..MaxNodes in ascending order, any id absent
RECURSIVE MapsFrom(_)
MapsFrom(uid) ==
    IF uid > MaxNodes THEN {<<>>}
    ELSE LET rest == MapsFrom(uid + 1)
         IN  rest \cup {<<n>> \o m : n \in NodesOf(uid), m \in rest}

AllSnapshots == {Snapshot(m) : m \in MapsFrom(1)}

\* a lookup by position in the map instead of by key
SelectorGet_ByPosition(selector_map, uid) ==
    IF uid \in 1..Len(selector_map)
    THEN [found |-> TRUE, node |-> selector_map[uid]]
    ELSE [found |-> FALSE, node |-> Node(0, <<>>, NoneVal, NoneVal, FALSE, 0)]

\* node_state.selector_map.get(uid): the node, or None (found = FALSE)
SelectorGet(selector_map, uid) ==
    IF \E i \in 1..Len(selector_map) : selector_map[i].unique_id = uid
    THEN [found |-> TRUE,
          node |-> selector_map[CHOOSE i \in 1..Len(selector_map) :
                                    selector_map[i].unique_id = uid]]
    ELSE [found |-> FALSE, node |-> Node(0, <<>>, NoneVal, NoneVal, FALSE, 0)]

----------------------------------------------------------------------------
(* Inputs of the tools and outcomes of the remote client *)

Uris == {<<"w","s",":","a">>, <<"w","s",":","b">>}

WidgetIdArgs == {<<"1">>, <<" ","2">>, <<"9">>, <<"a","b","c">>, <<>>}
DirectionArgs == {<<"u","p">>, <<"d","o","w","n">>, <<"l","e","f","t">>}
TextArgs == {<<"h","i">>}
SearchByArgs == {<<"k","e","y">>, <<"t","e","x","t">>, <<"t","y","p","e">>,
                 <<"a","l","l">>, <<"i","d">>}
SearchValueArgs == {<<>>, <<"B">>, <<"a","B">>}
DxArgs == {0}
DyArgs == {100}
DurationArgs == {300, 7}

\* str(e) of whatever the remote client raises
FaultText == <<"b","o","o","m">>
\* response.message of a debug-paint response
ResponseMessage == <<"n","o">>

\* a remote call returns normally or raises
CallOutcomes == {"ok", "raise"}
\* a per-widget dispatch answers True, answers False, or raises
DispatchOutcomes == {"true", "false", "raise"}
\* fetch then dispatch: a fetch that raised is followed by no dispatch
ActionOutcomes ==
    {o \in CallOutcomes \X DispatchOutcomes : o[1] = "raise" => o[2] = "raise"}

----------------------------------------------------------------------------
(* State *)

VARIABLES
    app,            \* global app: 0 is None, else the id of the App instance held
    is_connected,   \* global is_connected
    conns,          \* remote side: conns[c] is "open" or "closed" for each App constructed
    remote,         \* remote side: the UI tree get_app_state() returns now
    last,           \* the most recent tool invocation: command, arguments, globals
                    \* before it, remote calls it made, how it ended
    lastConnect     \* how the most recent connect_to_flutter_app ended

vars == <<app, is_connected, conns, remote, last, lastConnect>>

None == 0

OpenConns == {c \in 1..Len(conns) : conns[c] = "open"}

----------------------------------------------------------------------------
(* Results: the f-string returned, with the values interpolated into it *)

Field(label, value) == [label |-> label, value |-> value]

Result(kind, text, fields) == [kind |-> kind, text |-> text, fields |-> fields, body |-> <<>>]

NoResult == Result("none", "", <<>>)

NotConnectedMsg ==
    Result("NotConnected",
           "Not connected to a Flutter app. Please connect first using connect_to_flutter_app.",
           <<>>)

InvalidIdMsg(widget_id) ==
    Result("InvalidIdentifierFormat",
           "Invalid widget ID format: '{widget_id}'. ID should be an integer.",
           <<Field("widget_id", widget_id)>>)

InvalidDirectionMsg ==
    Result("InvalidParameter", "Invalid direction. Use 'up' or 'down'.", <<>>)

NotFoundMsg(widget_id) ==
    Result("WidgetNotFound",
           "Widget with ID '{widget_id}' not found. Use get_app_state to see available widgets.",
           <<Field("widget_id", widget_id)>>)

\* except Exception as e: return f"<prefix>: {str(e)}"
ErrorMsg(prefix) == Result("Error", prefix, <<Field("e", FaultText)>>)

\* the info captured "for better feedback" from the resolved node
WidgetText(node) == IF Truthy(node.text) THEN node.text ELSE NoneVal
WidgetKey(node) == IF Truthy(node.key) THEN node.key ELSE NoneVal

Described(node) ==
    << Field("widget_type", node.widget_type),
       Field("widget_text", WidgetText(node)),
       Field("widget_key", WidgetKey(node)) >>

\* an invocation: what it returns (or that it raised) and the remote calls it made
Returned(result, calls) == [outcome |-> "returned", result |-> result, calls |-> calls]
Raised(calls) == [outcome |-> "raised", result |-> NoResult, calls |-> calls]

Record(cmd, args, run) ==
    [cmd |-> cmd, args |-> args, pre_app |-> app, pre_connected |-> is_connected,
     outcome |-> run.outcome, result |-> run.result, calls |-> run.calls]

\* the gate with the is_connected test dropped
NotConnected_AppOnly == app = None

\* `if not is_connected or app is None`
NotConnected == ~is_connected \/ app = None

----------------------------------------------------------------------------
(* connect_to_flutter_app *)

ConnectOkMsg(vm_service_uri) ==
    Result("Connected", "Successfully connected to Flutter app at {vm_service_uri}",
           <<Field("vm_service_uri", vm_service_uri)>>)

ConnectErrorMsg ==
    Result("ConnectError", "Error connecting to Flutter app: {str(e)}",
           <<Field("e", FaultText)>>)

CloseCall(ret) == [op |-> "close", conn |-> app, ret |-> ret]
ConstructCall(ret, uri) ==
    [op |-> "App", conn |-> IF ret = "ok" THEN Len(conns) + 1 ELSE None, ret |-> ret,
     uri |-> uri]

\* remote side of app.close(): a close that returns has closed the connection;
\* one that raises may or may not have (closedAnyway)
AfterClose(ret, closedAnyway) ==
    IF ret = "ok" \/ closedAnyway THEN [conns EXCEPT ![app] = "closed"] ELSE conns

\* a connect that never closes the connection it replaces
ClosePrevious_Never(ret) == <<>>

\* the calls before the try block: close the connection held, if any
ClosePrevious(ret) == IF app # None THEN <<CloseCall(ret)>> ELSE <<>>

connect_to_flutter_app ==
    \E vm_service_uri \in Uris, closeRet \in CallOutcomes, closedAnyway \in BOOLEAN,
       newRet \in CallOutcomes :
        LET args == [vm_service_uri |-> vm_service_uri]
            closing == ClosePrevious(closeRet)
            conns1 == IF closing # <<>> THEN AfterClose(closeRet, closedAnyway) ELSE conns
        IN  IF closing # <<>> /\ closeRet = "raise"
            THEN \* app.close() is outside the try: the exception leaves the handler
                 /\ conns' = conns1
                 /\ last' = Record("connect_to_flutter_app", args, Raised(closing))
                 /\ lastConnect' = "close_raised"
                 /\ UNCHANGED <<app, is_connected, remote>>
            ELSE IF newRet = "ok"
            THEN /\ Len(conns) < MaxConns
                 /\ conns' = Append(conns1, "open")
                 /\ app' = Len(conns) + 1
                 /\ is_connected' = TRUE
                 /\ last' = Record("connect_to_flutter_app", args,
                                   Returned(ConnectOkMsg(vm_service_uri),
                                            closing \o <<ConstructCall("ok", vm_service_uri)>>))
                 /\ lastConnect' = "ok"
                 /\ UNCHANGED remote
            ELSE /\ conns' = conns1
                 /\ is_connected' = FALSE
                 /\ last' = Record("connect_to_flutter_app", args,
                                   Returned(ConnectErrorMsg,
                                            closing \o <<ConstructCall("raise", vm_service_uri)>>))
                 /\ lastConnect' = "construct_failed"
                 /\ UNCHANGED <<app, remote>>

----------------------------------------------------------------------------
(* The identifier-resolving actions *)

\* the fetch answered from the snapshot the previous invocation fetched
FetchCall_Cached(ret) ==
    [op |-> "get_app_state", conn |-> app, ret |-> ret,
     node_state |-> IF ret # "ok" THEN EmptySnapshot
                    ELSE IF last.calls # <<>> /\ last.calls[1].op = "get_app_state"
                            /\ last.calls[1].ret = "ok"
                    THEN last.calls[1].node_state
                    ELSE remote]

\* node_state = app.get_app_state(): the remote client is asked for the tree
FetchCall(ret) ==
    [op |-> "get_app_state", conn |-> app, ret |-> ret,
     node_state |-> IF ret = "ok" THEN remote ELSE EmptySnapshot]

\* a handler that forwards whatever direction it is given
ValidDirection_Any(direction) == TRUE

\* `direction not in ["up", "down"]` is the negation of this
ValidDirection(direction) == direction \in {<<"u","p">>, <<"d","o","w","n">>}

ClickMsg(success, node) ==
    IF success
    THEN Result("Success",
                "Successfully clicked on {widget_type} widget with text '{widget_text}' and key '{widget_key}'.",
                Described(node))
    ELSE Result("ActionRejected",
                "Failed to click on {widget_type} widget with text '{widget_text}' and key '{widget_key}'. The widget might not be interactive.",
                Described(node))

\* click_widget fetching the snapshot before it parses the identifier
click_widget_run_FetchFirst(widget_id, fetchRet, dispatchRet) ==
    IF NotConnected THEN Returned(NotConnectedMsg, <<>>)
    ELSE LET fetch == FetchCall(fetchRet)
             parsed == PyInt(widget_id) IN
    IF fetchRet = "raise" THEN Returned(ErrorMsg("Error clicking widget: {str(e)}"), <<fetch>>)
    ELSE IF ~parsed.ok THEN Returned(InvalidIdMsg(widget_id), <<fetch>>)
    ELSE LET target == SelectorGet(fetch.node_state.selector_map, parsed.val) IN
    IF ~target.found THEN Returned(NotFoundMsg(widget_id), <<fetch>>)
    ELSE LET dispatch == [op |-> "click_widget_by_unique_id", conn |-> app,
                          ret |-> dispatchRet, node_state |-> fetch.node_state,
                          unique_id |-> parsed.val] IN
    IF dispatchRet = "raise"
    THEN Returned(ErrorMsg("Error clicking widget: {str(e)}"), <<fetch, dispatch>>)
    ELSE Returned(ClickMsg(dispatchRet = "true", target.node), <<fetch, dispatch>>)

click_widget_run(widget_id, fetchRet, dispatchRet) ==
    IF NotConnected THEN Returned(NotConnectedMsg, <<>>)
    ELSE LET parsed == PyInt(widget_id) IN
    IF ~parsed.ok THEN Returned(InvalidIdMsg(widget_id), <<>>)
    ELSE LET fetch == FetchCall(fetchRet) IN
    IF fetchRet = "raise" THEN Returned(ErrorMsg("Error clicking widget: {str(e)}"), <<fetch>>)
    ELSE LET node_state == fetch.node_state
             target == SelectorGet(node_state.selector_map, parsed.val) IN
    IF ~target.found THEN Returned(NotFoundMsg(widget_id), <<fetch>>)
    ELSE LET dispatch == [op |-> "click_widget_by_unique_id", conn |-> app,
                          ret |-> dispatchRet, node_state |-> node_state,
                          unique_id |-> PyInt(widget_id).val] IN
    IF dispatchRet = "raise"
    THEN Returned(ErrorMsg("Error clicking widget: {str(e)}"), <<fetch, dispatch>>)
    ELSE Returned(ClickMsg(dispatchRet = "true", target.node), <<fetch, dispatch>>)

click_widget ==
    \E widget_id \in WidgetIdArgs, outcome \in ActionOutcomes :
        /\ last' = Record("click_widget", [widget_id |-> widget_id],
                          click_widget_run(widget_id, outcome[1], outcome[2]))
        /\ UNCHANGED <<app, is_connected, conns, remote, lastConnect>>

EnterTextMsg(success, text, node) ==
    IF success
    THEN Result("Success",
                "Successfully entered text '{text}' into {widget_type} widget with previous text '{widget_text}' and key '{widget_key}'.",
                <<Field("text", text)>> \o Described(node))
    ELSE Result("ActionRejected",
                "Failed to enter text into {widget_type} widget with text '{widget_text}' and key '{widget_key}'. The widget might not support text input.",
                Described(node))

enter_text_run(widget_id, text, fetchRet, dispatchRet) ==
    IF NotConnected THEN Returned(NotConnectedMsg, <<>>)
    ELSE LET parsed == PyInt(widget_id) IN
    IF ~parsed.ok THEN Returned(InvalidIdMsg(widget_id), <<>>)
    ELSE LET fetch == FetchCall(fetchRet) IN
    IF fetchRet = "raise"
    THEN Returned(ErrorMsg("Error entering text into widget: {str(e)}"), <<fetch>>)
    ELSE LET node_state == fetch.node_state
             target == SelectorGet(node_state.selector_map, parsed.val) IN
    IF ~target.found THEN Returned(NotFoundMsg(widget_id), <<fetch>>)
    ELSE LET dispatch == [op |-> "enter_text_with_unique_id", conn |-> app,
                          ret |-> dispatchRet, node_state |-> node_state,
                          unique_id |-> PyInt(widget_id).val, text |-> text] IN
    IF dispatchRet = "raise"
    THEN Returned(ErrorMsg("Error entering text into widget: {str(e)}"), <<fetch, dispatch>>)
    ELSE Returned(EnterTextMsg(dispatchRet = "true", text, target.node), <<fetch, dispatch>>)

enter_text ==
    \E widget_id \in WidgetIdArgs, text \in TextArgs, outcome \in ActionOutcomes :
        /\ last' = Record("enter_text", [widget_id |-> widget_id, text |-> text],
                          enter_text_run(widget_id, text, outcome[1], outcome[2]))
        /\ UNCHANGED <<app, is_connected, conns, remote, lastConnect>>

ScrollIntoViewMsg(success, node) ==
    IF success
    THEN Result("Success",
                "Successfully scrolled {widget_type} widget into view with text '{widget_text}' and key '{widget_key}'.",
                Described(node))
    ELSE Result("ActionRejected",
                "Failed to scroll {widget_type} widget into view with text '{widget_text}' and key '{widget_key}'. The widget might not be scrollable.",
                Described(node))

scroll_widget_into_view_run(widget_id, fetchRet, dispatchRet) ==
    IF NotConnected THEN Returned(NotConnectedMsg, <<>>)
    ELSE LET parsed == PyInt(widget_id) IN
    IF ~parsed.ok THEN Returned(InvalidIdMsg(widget_id), <<>>)
    ELSE LET fetch == FetchCall(fetchRet) IN
    IF fetchRet = "raise"
    THEN Returned(ErrorMsg("Error scrolling widget into view: {str(e)}"), <<fetch>>)
    ELSE LET node_state == fetch.node_state
             target == SelectorGet(node_state.selector_map, parsed.val) IN
    IF ~target.found THEN Returned(NotFoundMsg(widget_id), <<fetch>>)
    ELSE LET dispatch == [op |-> "scroll_into_view", conn |-> app,
                          ret |-> dispatchRet, node_state |-> node_state,
                          unique_id |-> parsed.val] IN
    IF dispatchRet = "raise"
    THEN Returned(ErrorMsg("Error scrolling widget into view: {str(e)}"), <<fetch, dispatch>>)
    ELSE Returned(ScrollIntoViewMsg(dispatchRet = "true", target.node), <<fetch, dispatch>>)

scroll_widget_into_view ==
    \E widget_id \in WidgetIdArgs, outcome \in ActionOutcomes :
        /\ last' = Record("scroll_widget_into_view", [widget_id |-> widget_id],
                          scroll_widget_into_view_run(widget_id, outcome[1], outcome[2]))
        /\ UNCHANGED <<app, is_connected, conns, remote, lastConnect>>

ScrollNormalMsg(success, direction, node) ==
    IF success
    THEN Result("Success",
                "Successfully scrolled {direction} {widget_type} widget with text '{widget_text}' and key '{widget_key}'.",
                <<Field("direction", direction)>> \o Described(node))
    ELSE Result("ActionRejected",
                "Failed to scroll {direction} {widget_type} widget with text '{widget_text}' and key '{widget_key}'. The widget might not be scrollable.",
                <<Field("direction", direction)>> \o Described(node))

scroll_widget_normal_run(widget_id, direction, fetchRet, dispatchRet) ==
    IF NotConnected THEN Returned(NotConnectedMsg, <<>>)
    ELSE IF ~ValidDirection(direction) THEN Returned(InvalidDirectionMsg, <<>>)
    ELSE LET parsed == PyInt(widget_id) IN
    IF ~parsed.ok THEN Returned(InvalidIdMsg(widget_id), <<>>)
    ELSE LET fetch == FetchCall(fetchRet) IN
    IF fetchRet = "raise" THEN Returned(ErrorMsg("Error scrolling widget: {str(e)}"), <<fetch>>)
    ELSE LET node_state == fetch.node_state
             target == SelectorGet(node_state.selector_map, parsed.val) IN
    IF ~target.found THEN Returned(NotFoundMsg(widget_id), <<fetch>>)
    ELSE LET dispatch == [op |-> "scroll_up_or_down", conn |-> app,
                          ret |-> dispatchRet, node_state |-> node_state,
                          unique_id |-> parsed.val, direction |-> direction] IN
    IF dispatchRet = "raise"
    THEN Returned(ErrorMsg("Error scrolling widget: {str(e)}"), <<fetch, dispatch>>)
    ELSE Returned(ScrollNormalMsg(dispatchRet = "true", direction, target.node),
                  <<fetch, dispatch>>)

scroll_widget_normal ==
    \E widget_id \in WidgetIdArgs, direction \in DirectionArgs, outcome \in ActionOutcomes :
        /\ last' = Record("scroll_widget_normal",
                          [widget_id |-> widget_id, direction |-> direction],
                          scroll_widget_normal_run(widget_id, direction, outcome[1], outcome[2]))
        /\ UNCHANGED <<app, is_connected, conns, remote, lastConnect>>

ScrollMsg(success, direction, node) ==
    IF success
    THEN Result("Success",
                "Successfully performed extended scroll {direction} on {widget_type} widget with text '{widget_text}' and key '{widget_key}'.",
                <<Field("direction", direction)>> \o Described(node))
    ELSE Result("ActionRejected",
                "Failed to perform extended scroll {direction} on {widget_type} widget with text '{widget_text}' and key '{widget_key}'. The widget might not be scrollable.",
                <<Field("direction", direction)>> \o Described(node))

\* gesture sampling frequency passed to scroll_up_or_down_extended
ScrollFrequency == 60

\* the call with the duration passed on in milliseconds
ExtendedScrollCall_Millis(node_state, unique_id, direction, dx, dy, duration_ms, ret) ==
    [op |-> "scroll_up_or_down_extended", conn |-> app, ret |-> ret,
     node_state |-> node_state, unique_id |-> unique_id, direction |-> direction,
     dx |-> dx, dy |-> dy,
     duration_microseconds |-> duration_ms,
     frequency |-> ScrollFrequency]

\* app.scroll_up_or_down_extended(node_state, target_unique_id, direction=,
\*     dx=, dy=, duration_microseconds=duration_ms * 1000, frequency=60)
ExtendedScrollCall(node_state, unique_id, direction, dx, dy, duration_ms, ret) ==
    [op |-> "scroll_up_or_down_extended", conn |-> app, ret |-> ret,
     node_state |-> node_state, unique_id |-> unique_id, direction |-> direction,
     dx |-> dx, dy |-> dy,
     duration_microseconds |-> duration_ms * 1000,
     frequency |-> ScrollFrequency]

scroll_widget_run(widget_id, direction, dx, dy, duration_ms, fetchRet, dispatchRet) ==
    IF NotConnected THEN Returned(NotConnectedMsg, <<>>)
    ELSE IF ~ValidDirection(direction) THEN Returned(InvalidDirectionMsg, <<>>)
    ELSE LET parsed == PyInt(widget_id) IN
    IF ~parsed.ok THEN Returned(InvalidIdMsg(widget_id), <<>>)
    ELSE LET fetch == FetchCall(fetchRet) IN
    IF fetchRet = "raise"
    THEN Returned(ErrorMsg("Error scrolling widget with extended parameters: {str(e)}"),
                  <<fetch>>)
    ELSE LET node_state == fetch.node_state
             target == SelectorGet(node_state.selector_map, parsed.val) IN
    IF ~target.found THEN Returned(NotFoundMsg(widget_id), <<fetch>>)
    ELSE LET dispatch == ExtendedScrollCall(node_state, parsed.val, direction, dx, dy,
                                            duration_ms, dispatchRet) IN
    IF dispatchRet = "raise"
    THEN Returned(ErrorMsg("Error scrolling widget with extended parameters: {str(e)}"),
                  <<fetch, dispatch>>)
    ELSE Returned(ScrollMsg(dispatchRet = "true", direction, target.node),
                  <<fetch, dispatch>>)

scroll_widget ==
    \E widget_id \in WidgetIdArgs, direction \in DirectionArgs, dx \in DxArgs, dy \in DyArgs,
       duration_ms \in DurationArgs, outcome \in ActionOutcomes :
        /\ last' = Record("scroll_widget",
                          [widget_id |-> widget_id, direction |-> direction, dx |-> dx,
                           dy |-> dy, duration_ms |-> duration_ms],
                          scroll_widget_run(widget_id, direction, dx, dy, duration_ms,
                                            outcome[1], outcome[2]))
        /\ UNCHANGED <<app, is_connected, conns, remote, lastConnect>>

----------------------------------------------------------------------------
(* find_widgets *)

\* node.child_nodes / the roots, read off the parent links
Children(node_state, uid) ==
    SelectSeq(node_state.selector_map, LAMBDA n : n.parent = uid)

\* the search loop with the widget_type test missing from the "all" branch
NodeMatches_AllWithoutType(search_by, search_value, node) ==
    IF search_by = <<"k","e","y">>
    THEN Truthy(node.key) /\ Contains(Lower(node.key), search_value)
    ELSE IF search_by = <<"t","e","x","t">>
    THEN Truthy(node.text) /\ Contains(Lower(node.text), search_value)
    ELSE IF search_by = <<"t","y","p","e">>
    THEN Contains(Lower(node.widget_type), search_value)
    ELSE IF search_by = <<"a","l","l">>
    THEN \/ (Truthy(node.key) /\ Contains(Lower(node.key), search_value))
         \/ (Truthy(node.text) /\ Contains(Lower(node.text), search_value))
    ELSE FALSE

\* the if/elif chain of the search loop; search_value is already lower-cased
NodeMatches(search_by, search_value, node) ==
    IF search_by = <<"k","e","y">> /\ Truthy(node.key)
       /\ Contains(Lower(node.key), search_value) THEN TRUE
    ELSE IF search_by = <<"t","e","x","t">> /\ Truthy(node.text)
            /\ Contains(Lower(node.text), search_value) THEN TRUE
    ELSE IF search_by = <<"t","y","p","e">>
            /\ Contains(Lower(node.widget_type), search_value) THEN TRUE
    ELSE IF search_by = <<"a","l","l">>
    THEN \/ (Truthy(node.key) /\ Contains(Lower(node.key), search_value))
         \/ (Truthy(node.text) /\ Contains(Lower(node.text), search_value))
         \/ Contains(Lower(node.widget_type), search_value)
    ELSE FALSE

\* matches, in selector_map iteration order
FindMatches(node_state, search_by, search_value) ==
    SelectSeq(node_state.selector_map,
              LAMBDA node : NodeMatches(search_by, Lower(search_value), node))

\* one numbered entry of the list; a line the code leaves out is NoneVal / 0
Entry(node_state, node) ==
    [type |-> node.widget_type,
     id |-> node.unique_id,
     parent_id |-> node.parent,
     children_ids |-> LET kids == Children(node_state, node.unique_id)
                      IN  [i \in 1..Len(kids) |-> kids[i].unique_id],
     properties |-> node.properties,
     key |-> IF Truthy(node.key) THEN node.key ELSE NoneVal,
     text |-> IF Truthy(node.text) THEN node.text ELSE NoneVal,
     interactive |-> node.is_interactive]

FoundMsg(node_state, matches, search_by, search_value) ==
    [Result("WidgetsFound",
            "Found {len(matches)} widgets matching '{search_value}' in {search_by}:",
            <<Field("search_value", search_value), Field("search_by", search_by)>>)
     EXCEPT !.body = [i \in 1..Len(matches) |-> Entry(node_state, matches[i])]]

NoneFoundMsg(search_by, search_value) ==
    Result("NoWidgetsFound", "No widgets found matching '{search_value}' in {search_by}.",
           <<Field("search_value", search_value), Field("search_by", search_by)>>)

find_widgets_run(search_by, search_value, fetchRet) ==
    IF NotConnected THEN Returned(NotConnectedMsg, <<>>)
    ELSE LET fetch == FetchCall(fetchRet) IN
    IF fetchRet = "raise" THEN Returned(ErrorMsg("Error finding widgets: {str(e)}"), <<fetch>>)
    ELSE LET node_state == fetch.node_state
             matches == FindMatches(node_state, search_by, search_value) IN
    IF matches = <<>>
    THEN Returned(NoneFoundMsg(search_by, Lower(search_value)), <<fetch>>)
    ELSE Returned(FoundMsg(node_state, matches, search_by, Lower(search_value)), <<fetch>>)

find_widgets ==
    \E search_by \in SearchByArgs, search_value \in SearchValueArgs, fetchRet \in CallOutcomes :
        /\ last' = Record("find_widgets",
                          [search_by |-> search_by, search_value |-> search_value],
                          find_widgets_run(search_by, search_value, fetchRet))
        /\ UNCHANGED <<app, is_connected, conns, remote, lastConnect>>

----------------------------------------------------------------------------
(* toggle_debug_paint_feature *)

\* the notice that ignores the flag
ToggleMsg_AlwaysEnabled(success, enable) ==
    IF success
    THEN Result("DebugPaint", "Debug paint feature has been {status}.",
                <<Field("status", <<"e","n","a","b","l","e","d">>)>>)
    ELSE Result("DebugPaintFailed", "Failed to toggle debug paint: {response.message}",
                <<Field("message", ResponseMessage)>>)

ToggleMsg(success, enable) ==
    IF success
    THEN Result("DebugPaint", "Debug paint feature has been {status}.",
                <<Field("status", IF enable THEN <<"e","n","a","b","l","e","d">>
                                  ELSE <<"d","i","s","a","b","l","e","d">>)>>)
    ELSE Result("DebugPaintFailed", "Failed to toggle debug paint: {response.message}",
                <<Field("message", ResponseMessage)>>)

toggle_debug_paint_feature_run(enable, toggleRet) ==
    IF NotConnected THEN Returned(NotConnectedMsg, <<>>)
    ELSE LET toggle == [op |-> "toggle_debug_paint", conn |-> app, ret |-> toggleRet,
                        enable |-> enable] IN
    IF toggleRet = "raise"
    THEN Returned(ErrorMsg("Error toggling debug paint: {str(e)}"), <<toggle>>)
    ELSE Returned(ToggleMsg(toggleRet = "true", enable), <<toggle>>)

toggle_debug_paint_feature ==
    \E enable \in BOOLEAN, toggleRet \in DispatchOutcomes :
        /\ last' = Record("toggle_debug_paint_feature", [enable |-> enable],
                          toggle_debug_paint_feature_run(enable, toggleRet))
        /\ UNCHANGED <<app, is_connected, conns, remote, lastConnect>>

----------------------------------------------------------------------------
(* get_app_state and the tree formatter *)

\* the bound on the text get_app_state returns
MaxResultLen == 1000000

RECURSIVE NumLen(_)
\* len(str(n)) for n >= 0
NumLen(n) == IF n < 10 THEN 1 ELSE 1 + NumLen(n \div 10)

\* one line of the rendering: which line of which node, and its character count
Line(what, uid, len) == [line |-> what, id |-> uid, len |-> len]

RECURSIVE SumLen(_)
SumLen(lines) == IF lines = <<>> THEN 0 ELSE Head(lines).len + SumLen(Tail(lines))

RECURSIVE format_json_node(_, _, _)
RECURSIVE format_children(_, _, _)

\* the lines of the children, each formatted at depth + 1, in order
format_children(node_state, kids, depth) ==
    IF kids = <<>> THEN <<>>
    ELSE format_json_node(node_state, Head(kids), depth)
         \o format_children(node_state, Tail(kids), depth)

format_json_node(node_state, node, depth) ==
    LET indent == 2 * depth
        kids == Children(node_state, node.unique_id)
    IN  <<Line("ID", node.unique_id,
               indent + 4 + NumLen(node.unique_id) + 9 + Len(node.widget_type) + 1)>>
        \o (IF Truthy(node.text)
            THEN <<Line("Text", node.unique_id, indent + 8 + Len(node.text) + 1)>> ELSE <<>>)
        \o (IF Truthy(node.key)
            THEN <<Line("Key", node.unique_id, indent + 7 + Len(node.key) + 1)>> ELSE <<>>)
        \o <<Line("Interactive", node.unique_id,
                  indent + 15 + (IF node.is_interactive THEN 3 ELSE 2) + 1)>>
        \o (IF node.properties > 0
            THEN <<Line("Properties", node.unique_id, indent + 14 + node.properties + 1)>>
            ELSE <<>>)
        \o (IF kids # <<>>
            THEN <<Line("Children", node.unique_id, indent + 12 + NumLen(Len(kids)) + 1)>>
                 \o format_children(node_state, kids, depth + 1)
            ELSE <<>>)

\* format_widget_tree: the header, the element tree from its root, the summary.
\* A snapshot without a root has no element tree to render: whatever to_json
\* gives for it (no 'element_tree', None, a dictionary without 'id') or raises,
\* the exception is caught on lines 415-416 and the error text with the raw
\* data is the rendering. No branch produces a notice of its own for it.
format_widget_tree(node_state) ==
    LET roots == Children(node_state, 0)
        interactive == SelectSeq(node_state.selector_map, LAMBDA n : n.is_interactive)
    IN  IF roots = <<>>
        THEN [kind |-> "FormatError",
              lines |-> <<Line("Error formatting widget tree", 0, 30 + 40),
                          Line("Raw data", 0, 10 + 20)>>]
        ELSE [kind |-> "AppState",
              lines |-> <<Line("Flutter App UI Structure", 0, 27),
                          Line("Element Tree", 0, 14)>>
                        \o format_json_node(node_state, roots[1], 0)
                        \o <<Line("UI Summary", 0, 13),
                             Line("Total nodes", 0,
                                  15 + NumLen(Len(node_state.selector_map)) + 1),
                             Line("Interactive nodes", 0,
                                  21 + NumLen(Len(interactive)) + 1)>>]

RECURSIVE Prefix(_, _)
\* formatted_state[:limit]: whole lines while they fit, the next one cut short
Prefix(lines, limit) ==
    IF lines = <<>> \/ limit <= 0 THEN <<>>
    ELSE IF Head(lines).len <= limit
    THEN <<Head(lines)>> \o Prefix(Tail(lines), limit - Head(lines).len)
    ELSE <<[Head(lines) EXCEPT !.len = limit]>>

\* the slice taken one character short
Trim_OneShort(lines) ==
    IF SumLen(lines) > MaxResultLen THEN Prefix(lines, MaxResultLen - 1) ELSE lines

\* `if len(formatted_state) > 1000000: formatted_state = formatted_state[:1000000]`
Trim(lines) == IF SumLen(lines) > MaxResultLen THEN Prefix(lines, MaxResultLen) ELSE lines

AppStateMsg(node_state) ==
    LET formatted_state == format_widget_tree(node_state)
    IN  [Result(formatted_state.kind, "{formatted_state}", <<>>)
         EXCEPT !.body = Trim(formatted_state.lines)]

get_app_state_run(fetchRet) ==
    IF NotConnected THEN Returned(NotConnectedMsg, <<>>)
    ELSE LET fetch == FetchCall(fetchRet) IN
    IF fetchRet = "raise" THEN Returned(ErrorMsg("Error getting app state: {str(e)}"), <<fetch>>)
    ELSE Returned(AppStateMsg(fetch.node_state), <<fetch>>)

\* a handler that gives the session up when the fetch fails
get_app_state_DisconnectOnFault ==
    \E fetchRet \in CallOutcomes :
        /\ last' = Record("get_app_state", [none |-> TRUE], get_app_state_run(fetchRet))
        /\ is_connected' = IF ~NotConnected /\ fetchRet = "raise" THEN FALSE
                           ELSE is_connected
        /\ UNCHANGED <<app, conns, remote, lastConnect>>

get_app_state ==
    \E fetchRet \in CallOutcomes :
        /\ last' = Record("get_app_state", [none |-> TRUE], get_app_state_run(fetchRet))
        /\ UNCHANGED <<app, is_connected, conns, remote, lastConnect>>

----------------------------------------------------------------------------
(* The remote application and the specifications *)

\* the application's UI changes between tool invocations
UiChange ==
    /\ remote' \in SampleSnapshots \ {remote}
    /\ UNCHANGED <<app, is_connected, conns, last, lastConnect>>

NoInvocation ==
    [cmd |-> "none", args |-> [none |-> TRUE], pre_app |-> None, pre_connected |-> FALSE,
     outcome |-> "returned", result |-> NoResult, calls |-> <<>>]

\* module load: app = None, is_connected = False, no tool invoked yet
Init ==
    /\ app = None
    /\ is_connected = FALSE
    /\ conns = <<>>
    /\ remote \in SampleSnapshots
    /\ last = NoInvocation
    /\ lastConnect = "none"

Next ==
    \/ connect_to_flutter_app
    \/ get_app_state
    \/ click_widget
    \/ enter_text
    \/ find_widgets
    \/ scroll_widget_into_view
    \/ scroll_widget_normal
    \/ scroll_widget
    \/ toggle_debug_paint_feature
    \/ UiChange

Spec == Init /\ [][Next]_vars

\* The search engine on every selector map of at most MaxNodes nodes: the
\* state after a first successful connect, the application showing any tree.
InitSearch ==
    /\ app = 1
    /\ is_connected = TRUE
    /\ conns = <<"open">>
    /\ remote \in AllSnapshots
    /\ \E uri \in Uris :
         last = [cmd |-> "connect_to_flutter_app", args |-> [vm_service_uri |-> uri],
                 pre_app |-> None, pre_connected |-> FALSE, outcome |-> "returned",
                 result |-> ConnectOkMsg(uri),
                 calls |-> <<[op |-> "App", conn |-> 1, ret |-> "ok", uri |-> uri]>>]
    /\ lastConnect = "ok"

SpecSearch == InitSearch /\ [][find_widgets]_vars

\* len(str(properties)) of a node: empty, and the two lengths that bring a
\* one-node tree (whose other lines take 144 or 145 characters) to the bound
\* and one past it; two such nodes render to nearly twice the bound
PropertyLens == {0, MaxResultLen - 145, MaxResultLen - 144}

FormatNodesOf(uid) ==
    {[Node(uid, <<"B","a">>, tx, NoneVal, i, uid - 1) EXCEPT !.properties = p] :
        tx \in {NoneVal, <<"b">>}, i \in BOOLEAN, p \in PropertyLens}

\* every chain 1 <- 2 <- ... of at most MaxNodes nodes, the empty tree included
RECURSIVE ChainsFrom(_)
ChainsFrom(uid) ==
    IF uid > MaxNodes THEN {<<>>}
    ELSE {<<>>} \cup {<<n>> \o m : n \in FormatNodesOf(uid), m \in ChainsFrom(uid + 1)}

FormatSnapshots == {Snapshot(m) : m \in ChainsFrom(1)}

RECURSIVE JoinedLen(_)
\* len(', '.join(str(id) for id in ids))
JoinedLen(ids) ==
    IF ids = <<>> THEN 0
    ELSE NumLen(Head(ids)) + (IF Tail(ids) = <<>> THEN 0 ELSE 2 + JoinedLen(Tail(ids)))

\* the characters the i-th entry adds to the result of find_widgets
EntryLen(i, entry) ==
    (NumLen(i) + 8 + Len(entry.type) + 1)
    + (7 + NumLen(entry.id) + 1)
    + (14 + (IF entry.parent_id = 0 THEN 4 ELSE NumLen(entry.parent_id)) + 1)
    + (17 + (IF entry.children_ids = <<>> THEN 4 ELSE JoinedLen(entry.children_ids)) + 1)
    + (IF entry.properties > 0 THEN 15 + entry.properties + 1 ELSE 0)
    + (IF entry.key # NoneVal THEN 8 + Len(entry.key) + 1 ELSE 0)
    + (IF entry.text # NoneVal THEN 9 + Len(entry.text) + 1 ELSE 0)
    + (16 + (IF entry.interactive THEN 3 ELSE 2) + 1)
    + 1

RECURSIVE EntriesLen(_, _)
EntriesLen(entries, i) ==
    IF i > Len(entries) THEN 0 ELSE EntryLen(i, entries[i]) + EntriesLen(entries, i + 1)

RECURSIVE FieldsLen(_)
FieldsLen(fields) ==
    IF fields = <<>> THEN 0 ELSE Len(Head(fields).value) + FieldsLen(Tail(fields))

\* len() of the text a handler returns
TextLen(result) ==
    IF result.kind \in {"AppState", "FormatError"} THEN SumLen(result.body)
    ELSE IF result.kind = "WidgetsFound"
    THEN 6 + NumLen(Len(result.body)) + 19 + Len(result.fields[1].value) + 5
         + Len(result.fields[2].value) + 3 + EntriesLen(result.body, 1)
    ELSE Len(result.text) + FieldsLen(result.fields)

\* The formatter on every chain of at most MaxNodes nodes, small and huge: the
\* state after a first successful connect, the application showing any of them.
InitFormat ==
    /\ app = 1
    /\ is_connected = TRUE
    /\ conns = <<"open">>
    /\ remote \in FormatSnapshots
    /\ \E uri \in Uris :
         last = [cmd |-> "connect_to_flutter_app", args |-> [vm_service_uri |-> uri],
                 pre_app |-> None, pre_connected |-> FALSE, outcome |-> "returned",
                 result |-> ConnectOkMsg(uri),
                 calls |-> <<[op |-> "App", conn |-> 1, ret |-> "ok", uri |-> uri]>>]
    /\ lastConnect = "ok"

NextFormat ==
    \/ get_app_state
    \/ find_widgets

SpecFormat == InitFormat /\ [][NextFormat]_vars

----------------------------------------------------------------------------
(* Vocabulary of the claims *)

Connect == "connect_to_flutter_app"

IdActions ==
    {"click_widget", "enter_text", "scroll_widget_into_view", "scroll_widget_normal",
     "scroll_widget"}

ScrollActions == {"scroll_widget_normal", "scroll_widget"}

OtherCommands ==
    IdActions \cup {"get_app_state", "find_widgets", "toggle_debug_paint_feature"}

\* the last invocation passed the connectivity gate
PassedGate == last.pre_connected /\ last.pre_app # None

CallsOf(op) == {i \in 1..Len(last.calls) : last.calls[i].op = op}

DispatchOps ==
    {"click_widget_by_unique_id", "enter_text_with_unique_id", "scroll_into_view",
     "scroll_up_or_down", "scroll_up_or_down_extended"}

Dispatches == {i \in 1..Len(last.calls) : last.calls[i].op \in DispatchOps}

\* the last invocation fetched a snapshot, and this is it
Fetched == /\ last.calls # <<>>
           /\ last.calls[1].op = "get_app_state"
           /\ last.calls[1].ret = "ok"

FetchedMap == last.calls[1].node_state.selector_map

IdsOf(selector_map) == {selector_map[i].unique_id : i \in 1..Len(selector_map)}

Up == <<"u","p">>
Down == <<"d","o","w","n">>

----------------------------------------------------------------------------
(* C1 *)

\* C1: every command other than connect, invoked before any connect or after
\* the most recent connect failed to construct a connection (even if an earlier
\* connection had been active), returns the NotConnected notice and makes no
\* call on the remote client.
C1_NotConnectedNoRemoteCall ==
    (last.cmd \in OtherCommands /\ lastConnect \in {"none", "construct_failed"})
        => /\ last.outcome = "returned"
           /\ last.result = NotConnectedMsg
           /\ last.calls = <<>>

\* a command refused after a failed connect that followed a live connection
C1_Witness ==
    /\ last.cmd = "toggle_debug_paint_feature"
    /\ lastConnect = "construct_failed"
    /\ app # None
    /\ last.result.kind = "NotConnected"

----------------------------------------------------------------------------
(* C2 *)

\* C2: no command raises past its own boundary: every invocation, connect
\* included, ends by returning a text result.
C2_NoCommandRaises == last.outcome = "returned"

----------------------------------------------------------------------------
(* C3 *)

\* C3: at most one connection that was created and not yet closed exists, and
\* a connect invoked while a connection is held calls close on that connection
\* before it constructs the new one.
C3_SingleOwner ==
    /\ Cardinality(OpenConns) <= 1
    /\ (last.cmd = Connect /\ last.pre_app # None)
         => /\ last.calls # <<>>
            /\ last.calls[1].op = "close"
            /\ last.calls[1].conn = last.pre_app
            /\ \A i \in CallsOf("App") : i > 1

\* a second connection constructed after the first was closed
C3_Witness ==
    /\ last.cmd = Connect
    /\ last.pre_app = 1
    /\ Len(conns) = 2
    /\ conns[1] = "closed"
    /\ conns[2] = "open"
    /\ app = 2

----------------------------------------------------------------------------
(* C4 *)

\* C4: errors during close are ignored: when connect is invoked while a
\* connection is held and closing it fails, connect still goes on to construct
\* the new connection and returns its success/failure text.
C4_CloseErrorsIgnored ==
    (/\ last.cmd = Connect
     /\ last.calls # <<>>
     /\ last.calls[1].op = "close"
     /\ last.calls[1].ret = "raise")
        => /\ CallsOf("App") # {}
           /\ last.outcome = "returned"
           /\ last.result.kind \in {"Connected", "ConnectError"}

----------------------------------------------------------------------------
(* C5 *)

\* the identifier of the last invocation does not parse as an integer
MalformedId == ~PyInt(last.args.widget_id).ok

\* C5 as stated: an identifier-taking action invoked while connected with an
\* identifier that does not parse as an integer returns the invalid-identifier
\* message and makes no remote call.
C5_AsStated ==
    (last.cmd \in IdActions /\ PassedGate /\ MalformedId)
        => /\ last.result = InvalidIdMsg(last.args.widget_id)
           /\ last.calls = <<>>

\* C5 amended: an identifier-taking action invoked while connected with an
\* identifier that does not parse as an integer makes no remote call, and
\* returns the invalid-identifier message unless it is a scroll given a
\* direction outside {up, down}, which returns InvalidParameter instead.
C5_InvalidIdentifier ==
    (last.cmd \in IdActions /\ PassedGate /\ MalformedId)
        => /\ last.outcome = "returned"
           /\ last.calls = <<>>
           /\ IF last.cmd \in ScrollActions /\ last.args.direction \notin {Up, Down}
              THEN last.result = InvalidDirectionMsg
              ELSE last.result = InvalidIdMsg(last.args.widget_id)

\* a click with the identifier "abc" on a live connection
C5_Witness ==
    /\ last.cmd = "click_widget"
    /\ PassedGate
    /\ last.args.widget_id = <<"a","b","c">>
    /\ last.result.kind = "InvalidIdentifierFormat"

----------------------------------------------------------------------------
(* C6 *)

\* C6: an identifier absent from the selector map of the snapshot the action
\* just fetched yields WidgetNotFound whatever the action is, and no action is
\* dispatched in that invocation.
C6_WidgetNotFound ==
    (/\ last.cmd \in IdActions
     /\ Fetched
     /\ PyInt(last.args.widget_id).val \notin IdsOf(FetchedMap))
        => /\ last.result = NotFoundMsg(last.args.widget_id)
           /\ Dispatches = {}

\* an extended scroll of widget "1" when the tree holds widget 2 only
C6_Witness ==
    /\ last.cmd = "scroll_widget"
    /\ Fetched
    /\ last.args.widget_id = <<"1">>
    /\ IdsOf(FetchedMap) = {2}
    /\ last.result.kind = "WidgetNotFound"

----------------------------------------------------------------------------
(* C7 *)

\* C7: scroll_widget_normal and scroll_widget invoked while connected with a
\* direction outside {up, down} return InvalidParameter and perform no fetch
\* and no dispatch, whatever the identifier is.
C7_DirectionFirst ==
    (last.cmd \in ScrollActions /\ PassedGate /\ last.args.direction \notin {Up, Down})
        => /\ last.result = InvalidDirectionMsg
           /\ last.calls = <<>>

\* direction "left" with a malformed identifier: the direction decides
C7_Witness ==
    /\ last.cmd = "scroll_widget_normal"
    /\ PassedGate
    /\ last.args.direction = <<"l","e","f","t">>
    /\ last.args.widget_id = <<"a","b","c">>
    /\ last.result.kind = "InvalidParameter"

----------------------------------------------------------------------------
(* C8 *)

\* the message the handler of cmd builds for a dispatch that answered `success`
OutcomeMsg(cmd, success, args, node) ==
    CASE cmd = "click_widget" -> ClickMsg(success, node)
      [] cmd = "enter_text" -> EnterTextMsg(success, args.text, node)
      [] cmd = "scroll_widget_into_view" -> ScrollIntoViewMsg(success, node)
      [] cmd = "scroll_widget_normal" -> ScrollNormalMsg(success, args.direction, node)
      [] cmd = "scroll_widget" -> ScrollMsg(success, args.direction, node)

\* the last invocation dispatched its action and the remote client answered
Answered == Dispatches # {} /\ last.calls[2].ret \in {"true", "false"}

\* C8: for every action and every resolved widget, the message returned when
\* the remote client answers true and the one returned when it answers false
\* carry the same fields (widget type, text, key, any action parameter named)
\* with the same values: only the verdict differs.
C8_SymmetricOutcomes ==
    (last.cmd \in IdActions /\ Answered)
        => LET node == SelectorGet(FetchedMap, last.calls[2].unique_id).node
               other == OutcomeMsg(last.cmd, last.calls[2].ret # "true", last.args, node)
           IN  /\ last.result.kind # other.kind
               /\ last.result.fields = other.fields

----------------------------------------------------------------------------
(* C9 *)

SearchKey == <<"k","e","y">>
SearchText == <<"t","e","x","t">>
SearchType == <<"t","y","p","e">>
SearchAll == <<"a","l","l">>

\* the nodes the last find_widgets listed, in the order listed
Listed ==
    IF last.result.kind = "WidgetsFound"
    THEN [i \in 1..Len(last.result.body) |->
            SelectorGet(FetchedMap, last.result.body[i].id).node]
    ELSE <<>>

\* the field is present, non-empty and contains the lower-cased search value
Hit(field, search_value) ==
    field # NoneVal /\ field # <<>> /\ Contains(Lower(field), Lower(search_value))

\* C9: in find_widgets a node whose relevant field is absent or empty never
\* matches, even with an empty search_value: a node listed for key / text /
\* type has a non-empty key / text / widget_type, and a node listed for all
\* has at least one non-empty field that contains the search value.
C9_EmptyFieldNeverMatches ==
    (last.cmd = "find_widgets" /\ Fetched)
        => \A i \in 1..Len(Listed) :
             LET node == Listed[i]
                 by == last.args.search_by
                 value == last.args.search_value
             IN  /\ by = SearchKey => Truthy(node.key)
                 /\ by = SearchText => Truthy(node.text)
                 /\ by = SearchType => node.widget_type # <<>>
                 /\ by = SearchAll => \/ Hit(node.key, value)
                                      \/ Hit(node.text, value)
                                      \/ Hit(node.widget_type, value)

----------------------------------------------------------------------------
(* C10 *)

ListedIds == {Listed[i].unique_id : i \in 1..Len(Listed)}

\* C10: for every snapshot and search_value, the nodes find_widgets lists for
\* search_by = all include every node a search by key, by text or by type
\* lists for the same search_value, and they are listed in selector-map
\* iteration order.
C10_AllIsSuperset ==
    (last.cmd = "find_widgets" /\ Fetched /\ last.args.search_by = SearchAll)
        => /\ \A by \in {SearchKey, SearchText, SearchType} :
                IdsOf(FindMatches(last.calls[1].node_state, by, last.args.search_value))
                    \subseteq ListedIds
           /\ Listed = SelectSeq(FetchedMap, LAMBDA n : n.unique_id \in ListedIds)

\* an all-search listing two nodes, one found by key only and one by type only
C10_Witness ==
    /\ last.cmd = "find_widgets"
    /\ Fetched
    /\ last.args.search_by = SearchAll
    /\ Len(Listed) = 2
    /\ LET state == last.calls[1].node_state
           value == last.args.search_value
       IN  /\ IdsOf(FindMatches(state, SearchKey, value)) = {1}
           /\ IdsOf(FindMatches(state, SearchType, value)) = {2}

----------------------------------------------------------------------------
(* C11 *)

\* the untruncated rendering of the snapshot the last get_app_state fetched
FullRendering == format_widget_tree(last.calls[1].node_state).lines

\* short is a prefix of long: the same lines, the last one possibly cut short
IsPrefixOf(short, long) ==
    /\ Len(short) <= Len(long)
    /\ \A i \in 1..Len(short) :
         /\ short[i].line = long[i].line
         /\ short[i].id = long[i].id
         /\ IF i < Len(short) THEN short[i].len = long[i].len
            ELSE short[i].len \in 1..long[i].len

\* C11: when the full-snapshot rendering produced for get_app_state is longer
\* than 1,000,000 characters the returned text has exactly that many characters
\* and is a prefix of the untruncated rendering; otherwise the rendering is
\* returned unchanged.
C11_TruncatedToPrefix ==
    (last.cmd = "get_app_state" /\ Fetched)
        => IF SumLen(FullRendering) > 1000000
           THEN /\ TextLen(last.result) = 1000000
                /\ IsPrefixOf(last.result.body, FullRendering)
           ELSE last.result.body = FullRendering

\* a rendering one character too long, returned without its last character
C11_Witness ==
    /\ last.cmd = "get_app_state"
    /\ Fetched
    /\ SumLen(FullRendering) = 1000001
    /\ TextLen(last.result) = 1000000
    /\ last.result.body # FullRendering

----------------------------------------------------------------------------
(* C12 *)

\* C12: every text returned by get_app_state (full snapshot) and every text
\* returned by find_widgets (search-results list) has at most 1,000,000
\* characters, for every snapshot and every number of matches, results
\* produced on a failure path included.
C12_BoundedLength ==
    last.cmd \in {"get_app_state", "find_widgets"}
        => TextLen(last.result) <= 1000000

----------------------------------------------------------------------------
(* C13 *)

\* C13: an empty snapshot (no root node, empty selector map) is rendered by
\* get_app_state as an explicit 'no elements' notice: not an empty body, not
\* an error or fallback message, and the formatter does not raise.
C13_EmptyTreeNotice ==
    (last.cmd = "get_app_state" /\ Fetched /\ FetchedMap = <<>>)
        => /\ last.outcome = "returned"
           /\ last.result.kind \notin {"FormatError", "Error"}
           /\ last.result.body # <<>>

----------------------------------------------------------------------------
(* C14 *)

\* C14: toggle_debug_paint_feature invoked while connected performs exactly one
\* toggle call on the remote client with the given enable flag, no snapshot
\* fetch and no identifier resolution; success true yields the 'enabled' notice
\* when enable is true and the 'disabled' notice when it is false, success
\* false yields a failure text carrying the response's message.
C14_ToggleOnce ==
    (last.cmd = "toggle_debug_paint_feature" /\ PassedGate)
        => /\ Len(last.calls) = 1
           /\ last.calls[1].op = "toggle_debug_paint"
           /\ last.calls[1].enable = last.args.enable
           /\ last.calls[1].ret = "true"
                => /\ last.result.kind = "DebugPaint"
                   /\ last.result.fields
                        = <<Field("status",
                                  IF last.args.enable
                                  THEN <<"e","n","a","b","l","e","d">>
                                  ELSE <<"d","i","s","a","b","l","e","d">>)>>
           /\ last.calls[1].ret = "false"
                => /\ last.result.kind = "DebugPaintFailed"
                   /\ last.result.fields = <<Field("message", ResponseMessage)>>

\* debug paint switched off, the remote client reporting success
C14_Witness ==
    /\ last.cmd = "toggle_debug_paint_feature"
    /\ PassedGate
    /\ ~last.args.enable
    /\ last.calls[1].ret = "true"
    /\ last.result.kind = "DebugPaint"

----------------------------------------------------------------------------
(* C15 *)

\* C15: for every scroll_widget invocation that reaches dispatch, the duration
\* forwarded to the remote client is duration_ms * 1000 (microseconds), the
\* sampling frequency forwarded is always 60, and direction, dx, dy and the
\* resolved identifier are forwarded unchanged.
C15_ScrollParameters ==
    (last.cmd = "scroll_widget" /\ Dispatches # {})
        => \A i \in Dispatches :
             /\ last.calls[i].op = "scroll_up_or_down_extended"
             /\ last.calls[i].duration_microseconds = last.args.duration_ms * 1000
             /\ last.calls[i].frequency = 60
             /\ last.calls[i].direction = last.args.direction
             /\ last.calls[i].dx = last.args.dx
             /\ last.calls[i].dy = last.args.dy
             /\ PyInt(last.args.widget_id).ok
             /\ last.calls[i].unique_id = PyInt(last.args.widget_id).val

\* scroll_widget(" 2", "down", 0, 100, 7) dispatched with 7000 microseconds
C15_Witness ==
    /\ last.cmd = "scroll_widget"
    /\ Dispatches # {}
    /\ last.args.duration_ms = 7
    /\ last.args.widget_id = <<" ", "2">>
    /\ \E i \in Dispatches : /\ last.calls[i].duration_microseconds = 7000
                             /\ last.calls[i].unique_id = 2

----------------------------------------------------------------------------
(* C16 *)

\* the identifier and the direction of invocation inv pass the local checks
LocallyValid(inv) ==
    /\ PyInt(inv.args.widget_id).ok
    /\ inv.cmd \in ScrollActions => inv.args.direction \in {Up, Down}

\* invocation inv, made while the application shows snapshot shown, fetches
\* once, resolves in what it fetched and dispatches at most once, on it
FetchesAfresh(inv, shown) ==
    LET n == Len(inv.calls)
        fetches == {i \in 1..n : inv.calls[i].op = "get_app_state"}
        dispatched == {i \in 1..n : inv.calls[i].op \in DispatchOps}
        uid == PyInt(inv.args.widget_id).val
    IN  /\ fetches = {1}
        /\ Cardinality(dispatched) <= 1
        /\ inv.calls[1].ret = "ok" => inv.calls[1].node_state = shown
        /\ dispatched # {}
             <=> /\ inv.calls[1].ret = "ok"
                 /\ uid \in IdsOf(shown.selector_map)
        /\ \A i \in dispatched :
             /\ i = 2
             /\ inv.calls[i].node_state = inv.calls[1].node_state
             /\ inv.calls[i].unique_id = uid

\* C16: every invocation of an identifier-resolving action that passes the
\* connectivity gate and local validation performs exactly one snapshot
\* fetch, resolves the identifier in that snapshot, and dispatches at most one
\* action, passing that same snapshot; no snapshot fetched by an earlier
\* invocation is reused for resolution or dispatch.
C16_OneFreshSnapshot ==
    [][(/\ remote' = remote
        /\ last'.cmd \in IdActions
        /\ last'.pre_connected /\ last'.pre_app # None
        /\ LocallyValid(last'))
            => FetchesAfresh(last', remote)]_vars

\* an action dispatched on the snapshot it fetched, the application having
\* changed since an earlier invocation
C16_Witness ==
    /\ last.cmd \in IdActions
    /\ PassedGate
    /\ Fetched
    /\ Dispatches = {2}
    /\ last.calls[2].node_state = remote
    /\ remote = KeyedSnapshot

----------------------------------------------------------------------------
(* C17 *)

\* C17: in every reachable state, is_connected is true only if app holds a
\* connection, that connection is the most recently created one, and close
\* has not been invoked on it; hence every command that passes the
\* connectivity gate issues its remote calls on a live, current connection.
C17_ConnectedMeansLive ==
    /\ is_connected
         => /\ app # None
            /\ app = Len(conns)
            /\ conns[app] = "open"
            /\ lastConnect # "close_raised"
    /\ (last.cmd \in OtherCommands /\ PassedGate)
         => \A i \in 1..Len(last.calls) :
              /\ last.calls[i].conn = Len(conns)
              /\ conns[last.calls[i].conn] = "open"

----------------------------------------------------------------------------
(* C18 *)

\* C18: under concurrent tool invocations sharing the single connection, the
\* fetch and the dispatch of one action invocation are never separated by a
\* remote call or a connect of another invocation: the action is dispatched on
\* the connection its snapshot was fetched from, and a connection is never used
\* by an invocation after another invocation's connect has closed it.
\* No handler awaits, so an invocation runs from its gate to its return
\* without another one in between and `last.calls` is the whole of what the
\* remote side sees of it.
C18_DispatchOnFetchedConnection ==
    (last.cmd \in OtherCommands /\ PassedGate)
        => /\ \A i \in Dispatches :
                /\ i = 2
                /\ last.calls[1].op = "get_app_state"
                /\ last.calls[i].conn = last.calls[1].conn
           /\ \A i \in 1..Len(last.calls) :
                /\ last.calls[i].conn = last.pre_app
                /\ conns[last.calls[i].conn] # "closed"

----------------------------------------------------------------------------
(* C19 *)

\* C19: only connect changes the connection state: every other command, on
\* every outcome (NotConnected, validation error, widget not found, success,
\* rejection, remote fault), leaves app and is_connected unchanged; a remote
\* fault during fetch, dispatch or toggle does not mark the session as
\* disconnected and does not close the connection.
C19_OnlyConnectChangesState ==
    [][last'.cmd \in OtherCommands
          => /\ app' = app
             /\ is_connected' = is_connected
             /\ conns' = conns
             /\ \A i \in 1..Len(last'.calls) : last'.calls[i].op \notin {"close", "App"}]_vars

\* a remote fault answered with the error text, the session still connected
\* on the connection it had
C19_Witness ==
    /\ last.cmd \in OtherCommands
    /\ PassedGate
    /\ last.result.kind = "Error"
    /\ \E i \in 1..Len(last.calls) : last.calls[i].ret = "raise"
    /\ is_connected
    /\ app = last.pre_app
    /\ conns[app] = "open"

=============================================================================
